---- MODULE Spec2Model ----
(***************************************************************************)
(* A model of transformers/data/processors/squad.py: the SquadExample      *)
(* constructor, SquadProcessor._create_examples and                        *)
(* squad_convert_examples_to_features.                                     *)
(*                                                                         *)
(* Text is a sequence of one-character strings.  Python lists are TLA+     *)
(* sequences; Python positions stay 0-based, as in the source, and are     *)
(* shifted by one only where a sequence is indexed.                        *)
(***************************************************************************)
EXTENDS Integers, Sequences, FiniteSets, TLC

VARIABLES
    pc,                  \* position of the running call
    \* ---- SquadExample.__init__
    ctor_args,           \* arguments of the constructor call
    self,                \* the object under construction
    \* ---- SquadProcessor._create_examples
    input_data, set_type, only_first, cursor, created,
    \* ---- squad_convert_examples_to_features : arguments
    examples, tokenizer, max_seq_length, doc_stride, max_query_length,
    is_training, sequence_a_is_doc,
    \* ---- squad_convert_examples_to_features : locals
    example_index, unique_id, features,
    tok_to_orig_index, orig_to_tok_index, all_doc_tokens,
    tok_start_position, tok_end_position,
    truncated_query, spans, span_doc_tokens

ctorVars    == <<ctor_args, self>>
createVars  == <<input_data, set_type, only_first, cursor, created>>
argVars     == <<examples, tokenizer, max_seq_length, doc_stride,
                 max_query_length, is_training, sequence_a_is_doc>>
exampleVars == <<tok_to_orig_index, orig_to_tok_index, all_doc_tokens,
                 tok_start_position, tok_end_position,
                 truncated_query, spans, span_doc_tokens>>
convertVars == <<argVars, example_index, unique_id, features, exampleVars>>
vars        == <<pc, ctorVars, createVars, convertVars>>

----------------------------------------------------------------------------
(* Generic helpers.                                                        *)

Min(a, b) == IF a < b THEN a ELSE b
Max(a, b) == IF a > b THEN a ELSE b

Range(s) == {s[i] : i \in 1..Len(s)}

\* All sequences over S of length lo..hi.
SeqsOf(S, lo, hi) == UNION {[1..n -> S] : n \in lo..hi}

\* Python's seq[i] for a 0-based, possibly negative, index.
PyInRange(seq, i) == (0 - Len(seq)) <= i /\ i < Len(seq)
PyAt(seq, i)      == IF i >= 0 THEN seq[i + 1] ELSE seq[Len(seq) + i + 1]

\* Python's seq[lo:hi] (0-based, hi exclusive, negative bounds wrap, both
\* bounds are clamped to the list).
PyBound(seq, i)      == IF i < 0 THEN Max(Len(seq) + i, 0) ELSE Min(i, Len(seq))
PySlice(seq, lo, hi) == SubSeq(seq, PyBound(seq, lo) + 1, PyBound(seq, hi))

\* Python's sep.join(parts) where every part is a text.
RECURSIVE Join(_, _)
Join(parts, sep) ==
    IF Len(parts) = 0 THEN <<>>
    ELSE IF Len(parts) = 1 THEN parts[1]
    ELSE parts[1] \o sep \o Join(Tail(parts), sep)

\* Python's hay.find(needle) on texts: first 0-based offset, or -1.
FindFrom(hay, needle) ==
    {i \in 0..(Len(hay) - Len(needle)) :
        SubSeq(hay, i + 1, i + Len(needle)) = needle}
Find(hay, needle) ==
    IF FindFrom(hay, needle) = {} THEN -1
    ELSE CHOOSE i \in FindFrom(hay, needle) :
            \A j \in FindFrom(hay, needle) : i <= j

\* Python's list.index(x): 0-based position of the first occurrence.
IndexOf(seq, x) ==
    (CHOOSE i \in 1..Len(seq) : seq[i] = x /\ \A j \in 1..(i - 1) : seq[j] # x) - 1

----------------------------------------------------------------------------
(* _is_whitespace and the whitespace tokenisation of SquadExample.__init__ *)

NNBSP == "u202F"     \* the character with code point 0x202F

\* _is_whitespace without the space character.
_is_whitespace_nospace(c) == c = "\t" \/ c = "\r" \/ c = "\n" \/ c = NNBSP

_is_whitespace(c) == c = " " \/ c = "\t" \/ c = "\r" \/ c = "\n" \/ c = NNBSP

\* The character loop of SquadExample.__init__, from character i (1-based)
\* on, with the loop's three locals as accumulators.
RECURSIVE ScanContext(_, _, _, _, _)
ScanContext(text, i, doc_tokens, char_to_word_offset, prev_is_whitespace) ==
    IF i > Len(text)
    THEN [doc_tokens |-> doc_tokens, char_to_word_offset |-> char_to_word_offset]
    ELSE LET c == text[i]
             toks == IF _is_whitespace(c) THEN doc_tokens
                     ELSE IF prev_is_whitespace
                          THEN Append(doc_tokens, <<c>>)
                          ELSE [doc_tokens EXCEPT ![Len(doc_tokens)] = Append(@, c)]
         IN  ScanContext(text, i + 1, toks,
                         Append(char_to_word_offset, Len(toks) - 1),
                         _is_whitespace(c))

\* whitespace_tokenize(text) of tokenization_bert: text.strip().split().
whitespace_tokenize(text) == ScanContext(text, 1, <<>>, <<>>, TRUE).doc_tokens

\* Arguments of one constructor call.  has_start is FALSE when
\* start_position_character is None.
CtorArgs(context_text, answer_text, has_start, start_char, is_impossible, question) ==
    [context_text |-> context_text, answer_text |-> answer_text,
     has_start |-> has_start, start_position_character |-> start_char,
     is_impossible |-> is_impossible, question_text |-> question]

\* TRUE when the derivation of start/end position indexes char_to_word_offset
\* out of range (Python raises IndexError).
CtorRaises(a) ==
    LET c2w == ScanContext(a.context_text, 1, <<>>, <<>>, TRUE).char_to_word_offset
    IN  /\ a.has_start /\ ~a.is_impossible
        /\ \/ ~PyInRange(c2w, a.start_position_character)
           \/ ~PyInRange(c2w, a.start_position_character + Len(a.answer_text) - 1)

\* The object SquadExample.__init__ leaves behind when it does not raise.
SquadExample(a) ==
    LET scan == ScanContext(a.context_text, 1, <<>>, <<>>, TRUE)
        c2w  == scan.char_to_word_offset
        derive == a.has_start /\ ~a.is_impossible
    IN  [question_text  |-> a.question_text,
         context_text   |-> a.context_text,
         answer_text    |-> a.answer_text,
         is_impossible  |-> a.is_impossible,
         doc_tokens     |-> scan.doc_tokens,
         char_to_word_offset |-> c2w,
         start_position |-> IF derive THEN PyAt(c2w, a.start_position_character) ELSE 0,
         end_position   |-> IF derive
                            THEN PyAt(c2w, a.start_position_character
                                           + Len(a.answer_text) - 1)
                            ELSE 0]

NoObject == [question_text |-> <<>>, context_text |-> <<>>, answer_text |-> <<>>,
             is_impossible |-> FALSE, doc_tokens |-> <<>>,
             char_to_word_offset |-> <<>>, start_position |-> 0, end_position |-> 0]

----------------------------------------------------------------------------
(* Specification of the constructor alone.                                 *)

MaxCtxLen == 3      \* longest generated context, in characters
MaxAnsLen == 2      \* longest generated answer text, in characters

CtxChars == {"a", " ", "\t"}
AnsChars == {"a", " "}

Einstein ==
    <<"A","l","b","e","r","t"," ","E","i","n","s","t","e","i","n"," ",
      "w","a","s"," ","b","o","r","n"," ","i","n"," ",
      "G","e","r","m","a","n","y">>
Germany == <<"G","e","r","m","a","n","y">>

EinsteinArgs(start) == CtorArgs(Einstein, Germany, TRUE, start, FALSE, <<"q">>)

GeneratedCtorArgs ==
    {CtorArgs(c, t, h, s, imp, <<"q">>) :
        c \in SeqsOf(CtxChars, 0, MaxCtxLen), t \in SeqsOf(AnsChars, 0, MaxAnsLen),
        h \in BOOLEAN, s \in 0..MaxCtxLen, imp \in BOOLEAN}

AllCtorArgs == GeneratedCtorArgs \cup {EinsteinArgs(s) : s \in 27..29}

----------------------------------------------------------------------------
(* The tokenizer used by squad_convert_examples_to_features.  It splits a  *)
(* text into one sub-token per non-whitespace character, so that a word    *)
(* of k characters yields k >= 1 sub-tokens.                               *)

ClsToken == "[CLS]"
SepToken == "[SEP]"

\* tokenizer.tokenize(text)
Tokenize(text) == Join(whitespace_tokenize(text), <<>>)

\* Vocabulary ids of the ordinary sub-tokens.
TokenId(t) == CASE t = "a" -> 5 [] t = "b" -> 6 [] OTHER -> 7

\* tokenizer.convert_ids_to_tokens(ids)
IdToken(tok, id) ==
    IF id = tok.cls_token_id THEN ClsToken
    ELSE IF id = tok.sep_token_id THEN SepToken
    ELSE CASE id = 5 -> "a" [] id = 6 -> "b" [] OTHER -> "q"
ConvertIdsToTokens(tok, ids) == [i \in 1..Len(ids) |-> IdToken(tok, ids[i])]

ConvertTokensToIds(tokens) == [i \in 1..Len(tokens) |-> TokenId(tokens[i])]

\* tokenizer.encode(text, add_special_tokens=False, max_length=n)
Encode(text, max_length) ==
    LET ids == ConvertTokensToIds(Tokenize(text))
    IN  SubSeq(ids, 1, Min(Len(ids), max_length))

\* tokenizer.max_len - tokenizer.max_len_single_sentence
SequenceAddedTokens(tok) == 2
\* tokenizer.max_len - tokenizer.max_len_sentences_pair
SequencePairAddedTokens(tok) == 3

Repeat(x, n) == [i \in 1..n |-> x]

\* build_inputs_with_special_tokens / create_token_type_ids_from_sequences:
\*   "bert"  : [CLS] A [SEP] B [SEP]      segments 0 .. 0 1 .. 1
\*   "xlnet" : A [SEP] B [SEP] [CLS]      segments 0 .. 0 1 .. 1 2
WithSpecialTokens(tok, a, b) ==
    IF tok.layout = "bert"
    THEN <<tok.cls_token_id>> \o a \o <<tok.sep_token_id>> \o b \o <<tok.sep_token_id>>
    ELSE a \o <<tok.sep_token_id>> \o b \o <<tok.sep_token_id>> \o <<tok.cls_token_id>>

TokenTypeIds(tok, a, b) ==
    IF tok.layout = "bert"
    THEN Repeat(0, Len(a) + 2) \o Repeat(1, Len(b) + 1)
    ELSE Repeat(0, Len(a) + 1) \o Repeat(1, Len(b) + 1) \o <<2>>

\* tokenizer.encode_plus(first, second, max_length, stride, truncation of one
\* side only, overflow reporting, right padding).
EncodePlus(tok, first, second, max_length, stride, truncate_first) ==
    LET total   == Len(first) + Len(second) + SequencePairAddedTokens(tok)
        remove  == total - max_length
        side    == IF truncate_first THEN first ELSE second
        kept    == IF remove > 0 THEN PySlice(side, 0, 0 - remove) ELSE side
        window_len == Min(Len(side), stride + remove)
        a       == IF truncate_first THEN kept ELSE first
        b       == IF truncate_first THEN second ELSE kept
        ids     == WithSpecialTokens(tok, a, b)
        pad     == Max(max_length - Len(ids), 0)
    IN  [input_ids      |-> ids \o Repeat(tok.pad_token_id, pad),
         token_type_ids |-> TokenTypeIds(tok, a, b) \o Repeat(0, pad),
         attention_mask |-> Repeat(1, Len(ids)) \o Repeat(0, pad),
         has_overflowing_tokens |-> remove > 0,
         overflowing_tokens |-> IF remove > 0
                                THEN PySlice(side, 0 - window_len, Len(side))
                                ELSE <<>>]

----------------------------------------------------------------------------
(* Helpers of squad_convert_examples_to_features.                          *)

\* " ".join(tokens) for a list of sub-tokens.
JoinTokens(tokens) == Join([i \in 1..Len(tokens) |-> <<tokens[i]>>], <<" ">>)

\* _improve_answer_span: the first (new_start, new_end), new_start ascending
\* and new_end descending, whose joined text equals the tokenized answer.
ImproveCandidates(doc_tokens, input_start, input_end, orig_answer_text) ==
    {se \in (input_start..input_end) \X (input_start..input_end) :
        /\ se[1] <= se[2]
        /\ JoinTokens(PySlice(doc_tokens, se[1], se[2] + 1))
             = JoinTokens(Tokenize(orig_answer_text))}

_improve_answer_span(doc_tokens, input_start, input_end, orig_answer_text) ==
    LET cands == ImproveCandidates(doc_tokens, input_start, input_end, orig_answer_text)
    IN  IF cands = {} THEN <<input_start, input_end>>
        ELSE CHOOSE se \in cands :
                \A o \in cands : \/ se[1] < o[1]
                                 \/ se[1] = o[1] /\ se[2] >= o[2]

\* The score of line 63, times 100 so that it stays an integer:
\* min(left, right) + 0.01 * length.
ContextScore(doc_span, position) ==
    LET end == doc_span.start + doc_span.length - 1
    IN  100 * Min(position - doc_span.start, end - position) + doc_span.length

\* The loop of _new_check_is_max_context from span_index (0-based) on;
\* best_span_index = -1 stands for None.
RECURSIVE BestSpanIndex(_, _, _, _, _)
BestSpanIndex(doc_spans, span_index, position, best_score, best_span_index) ==
    IF span_index >= Len(doc_spans) THEN best_span_index
    ELSE LET doc_span == doc_spans[span_index + 1]
             end      == doc_span.start + doc_span.length - 1
             score    == ContextScore(doc_span, position)
         IN  IF position < doc_span.start \/ position > end
             THEN BestSpanIndex(doc_spans, span_index + 1, position,
                                best_score, best_span_index)
             ELSE IF best_span_index = -1 \/ score > best_score
             THEN BestSpanIndex(doc_spans, span_index + 1, position,
                                score, span_index)
             ELSE BestSpanIndex(doc_spans, span_index + 1, position,
                                best_score, best_span_index)

\* _new_check_is_max_context where an equal score replaces the best so far.
RECURSIVE BestSpanIndex_ge(_, _, _, _, _)
BestSpanIndex_ge(doc_spans, span_index, position, best_score, best_span_index) ==
    IF span_index >= Len(doc_spans) THEN best_span_index
    ELSE LET doc_span == doc_spans[span_index + 1]
             end      == doc_span.start + doc_span.length - 1
             score    == ContextScore(doc_span, position)
         IN  IF position < doc_span.start \/ position > end
             THEN BestSpanIndex_ge(doc_spans, span_index + 1, position,
                                   best_score, best_span_index)
             ELSE IF best_span_index = -1 \/ score >= best_score
             THEN BestSpanIndex_ge(doc_spans, span_index + 1, position,
                                   score, span_index)
             ELSE BestSpanIndex_ge(doc_spans, span_index + 1, position,
                                   best_score, best_span_index)

_new_check_is_max_context_ge(doc_spans, cur_span_index, position) ==
    cur_span_index = BestSpanIndex_ge(doc_spans, 0, position, 0, -1)

_new_check_is_max_context(doc_spans, cur_span_index, position) ==
    cur_span_index = BestSpanIndex(doc_spans, 0, position, 0, -1)

\* actual_text.find(cleaned_answer_text) == -1 of lines 91-93.
AnswerNotFound(example) ==
    LET actual_text == Join(PySlice(example.doc_tokens, example.start_position,
                                    example.end_position + 1), <<" ">>)
        cleaned_answer_text == Join(whitespace_tokenize(example.answer_text), <<" ">>)
    IN  Find(actual_text, cleaned_answer_text) = -1

\* The test of line 85 together with the one of line 93.
Skipped(example) ==
    is_training /\ ~example.is_impossible /\ AnswerNotFound(example)

\* Lines 98-106: the sub-tokens of the passage and the two alignment tables.
RECURSIVE SubTokenize(_, _, _, _, _)
SubTokenize(doc_tokens, i, t2o, o2t, all) ==
    IF i > Len(doc_tokens)
    THEN [tok_to_orig_index |-> t2o, orig_to_tok_index |-> o2t, all_doc_tokens |-> all]
    ELSE LET sub_tokens == Tokenize(doc_tokens[i])
         IN  SubTokenize(doc_tokens, i + 1,
                         t2o \o Repeat(i - 1, Len(sub_tokens)),
                         Append(o2t, Len(all)),
                         all \o sub_tokens)

\* DocOffset with the overhead of a pair of sequences.
DocOffset_pair == IF sequence_a_is_doc THEN 0
                  ELSE Len(truncated_query) + SequencePairAddedTokens(tokenizer)

\* Offset of the passage inside a window (lines 150, 170, 211-214).
DocOffset == IF sequence_a_is_doc THEN 0
             ELSE Len(truncated_query) + SequenceAddedTokens(tokenizer)

\* PMask without the separator positions forced to 1.
PMask_nosep(span, cls_index) ==
    [i \in 1..Len(span.input_ids) |->
        IF i = cls_index + 1 THEN 0
        ELSE IF sequence_a_is_doc THEN Min(span.token_type_ids[i], 1)
        ELSE 1 - Min(span.token_type_ids[i], 1)]

\* Lines 179-190.
PMask(span, cls_index) ==
    [i \in 1..Len(span.input_ids) |->
        IF i = cls_index + 1 THEN 0
        ELSE IF span.input_ids[i] = tokenizer.sep_token_id THEN 1
        ELSE IF sequence_a_is_doc THEN Min(span.token_type_ids[i], 1)
        ELSE 1 - Min(span.token_type_ids[i], 1)]

\* OutOfSpan with only the windows that the span lies wholly outside of.
OutOfSpan_outside(span) ==
    LET doc_start == span.start
        doc_end   == span.start + span.length - 1
    IN  tok_end_position < doc_start \/ tok_start_position > doc_end

\* Line 203.
OutOfSpan(span) ==
    LET doc_start == span.start
        doc_end   == span.start + span.length - 1
    IN  ~(tok_start_position >= doc_start /\ tok_end_position <= doc_end)

----------------------------------------------------------------------------
(* Values of the variables of a call that is not running.                  *)

NoTokenizer == [layout |-> "bert", cls_token_id |-> 101, sep_token_id |-> 102,
                pad_token_id |-> 0]

CtorIdle == ctor_args = CtorArgs(<<>>, <<>>, FALSE, 0, FALSE, <<>>) /\ self = NoObject

CreateIdle ==
    /\ input_data = <<>> /\ set_type = "dev" /\ only_first = <<>>
    /\ cursor = 0 /\ created = <<>>

ConvertLocalsInit ==
    /\ example_index = 0 /\ unique_id = 1000000000 /\ features = <<>>
    /\ tok_to_orig_index = <<>> /\ orig_to_tok_index = <<>> /\ all_doc_tokens = <<>>
    /\ tok_start_position = 0 /\ tok_end_position = 0
    /\ truncated_query = <<>> /\ spans = <<>> /\ span_doc_tokens = <<>>

ConvertIdle ==
    /\ examples = <<>> /\ tokenizer = NoTokenizer /\ max_seq_length = 0
    /\ doc_stride = 0 /\ max_query_length = 0
    /\ is_training = FALSE /\ sequence_a_is_doc = FALSE
    /\ ConvertLocalsInit

----------------------------------------------------------------------------
(* SquadExample.__init__ as one step.                                      *)

Construct ==
    /\ pc = "ctor"
    /\ ~CtorRaises(ctor_args)
    /\ self' = SquadExample(ctor_args)
    /\ pc' = "constructed"
    /\ UNCHANGED <<ctor_args, createVars, convertVars>>

ConstructRaises ==
    /\ pc = "ctor"
    /\ CtorRaises(ctor_args)
    /\ pc' = "IndexError"
    /\ UNCHANGED <<ctorVars, createVars, convertVars>>

InitExample ==
    /\ pc = "ctor"
    /\ ctor_args \in AllCtorArgs
    /\ self = NoObject
    /\ CreateIdle /\ ConvertIdle

NextExample == Construct \/ ConstructRaises

SpecExample == InitExample /\ [][NextExample]_vars

----------------------------------------------------------------------------
(* squad_convert_examples_to_features.                                     *)
(*   pc = "example"     : head of the loop over the examples (line 84)     *)
(*   pc = "spans"       : head of the sliding-window loop (line 127)       *)
(*   pc = "max_context" : before the loop of lines 167-171                 *)
(*   pc = "features"    : head of the loop over the spans (line 173)       *)
(*   pc = "done"        : returned (line 240)                              *)

MaxSpans == 4       \* windows of one example that the model keeps

Example == examples[example_index + 1]

\* SkipExample leaving the loop over the examples (break for continue).
SkipExample_break ==
    /\ pc = "example"
    /\ example_index < Len(examples)
    /\ Skipped(Example)
    /\ example_index' = Len(examples)
    /\ UNCHANGED <<pc, ctorVars, createVars, argVars, unique_id, features, exampleVars>>

\* Lines 85-95: the answer text is not found, the example is skipped.
SkipExample ==
    /\ pc = "example"
    /\ example_index < Len(examples)
    /\ Skipped(Example)
    /\ example_index' = example_index + 1
    /\ UNCHANGED <<pc, ctorVars, createVars, argVars, unique_id, features, exampleVars>>

\* Lines 98-126: alignment tables, answer span promotion, question truncation.
TokenizeExample ==
    /\ pc = "example"
    /\ example_index < Len(examples)
    /\ ~Skipped(Example)
    /\ LET sub == SubTokenize(Example.doc_tokens, 1, <<>>, <<>>, <<>>)
           o2t == sub.orig_to_tok_index
           start == PyAt(o2t, Example.start_position)
           end   == IF Example.end_position < Len(Example.doc_tokens) - 1
                    THEN PyAt(o2t, Example.end_position + 1) - 1
                    ELSE Len(sub.all_doc_tokens) - 1
           improved == _improve_answer_span(sub.all_doc_tokens, start, end,
                                            Example.answer_text)
       IN  /\ tok_to_orig_index' = sub.tok_to_orig_index
           /\ orig_to_tok_index' = o2t
           /\ all_doc_tokens' = sub.all_doc_tokens
           /\ IF is_training /\ ~Example.is_impossible
              THEN /\ tok_start_position' = improved[1]
                   /\ tok_end_position' = improved[2]
              ELSE UNCHANGED <<tok_start_position, tok_end_position>>
           /\ spans' = <<>>
           /\ truncated_query' = Encode(Example.question_text, max_query_length)
           /\ span_doc_tokens' = ConvertTokensToIds(sub.all_doc_tokens)
           /\ pc' = IF 0 < Len(sub.all_doc_tokens) THEN "spans" ELSE "max_context"
    /\ UNCHANGED <<ctorVars, createVars, argVars, example_index, unique_id, features>>

\* The window that one iteration of lines 129-159 records.
NewSpan ==
    LET pair == SequencePairAddedTokens(tokenizer)
        encoded_dict ==
            EncodePlus(tokenizer,
                       IF sequence_a_is_doc THEN span_doc_tokens ELSE truncated_query,
                       IF sequence_a_is_doc THEN truncated_query ELSE span_doc_tokens,
                       max_seq_length,
                       max_seq_length - doc_stride - Len(truncated_query) - pair,
                       sequence_a_is_doc)
        paragraph_len ==
            Min(Len(all_doc_tokens) - Len(spans) * doc_stride,
                max_seq_length - Len(truncated_query) - pair)
        ids == encoded_dict.input_ids
        non_padded_ids ==
            IF tokenizer.pad_token_id \in Range(ids)
            THEN SubSeq(ids, 1, IndexOf(ids, tokenizer.pad_token_id))
            ELSE ids
    IN  [input_ids      |-> ids,
         attention_mask |-> encoded_dict.attention_mask,
         token_type_ids |-> encoded_dict.token_type_ids,
         has_overflowing_tokens |-> encoded_dict.has_overflowing_tokens,
         overflowing_tokens |-> encoded_dict.overflowing_tokens,
         paragraph_len  |-> paragraph_len,
         tokens         |-> ConvertIdsToTokens(tokenizer, non_padded_ids),
         token_to_orig_map |->
             [index \in {DocOffset + i : i \in 0..(paragraph_len - 1)} |->
                 PyAt(tok_to_orig_index,
                      Len(spans) * doc_stride + (index - DocOffset))],
         truncated_query_with_special_tokens_length |->
             Len(truncated_query) + SequenceAddedTokens(tokenizer),
         token_is_max_context |-> <<>>,
         start          |-> Len(spans) * doc_stride,
         length         |-> paragraph_len]

\* One iteration of the loop of lines 127-165.  With doc_stride = 0 neither
\* the loop test nor a window depends on the number of windows, all windows
\* are alike, and the model keeps the latest of them only: a list of
\* MaxSpans windows starts over with the new window.
BuildSpan ==
    /\ pc = "spans"
    /\ Len(spans) * doc_stride < Len(all_doc_tokens)
    /\ LET span == NewSpan
           appended == IF doc_stride > 0 \/ Len(spans) < MaxSpans
                       THEN Append(spans, span) ELSE <<span>>
       IN  /\ spans' = appended
           /\ IF ~span.has_overflowing_tokens
              THEN /\ pc' = "max_context"
                   /\ UNCHANGED span_doc_tokens
              ELSE /\ span_doc_tokens' = span.overflowing_tokens
                   /\ pc' = IF Len(appended) * doc_stride < Len(all_doc_tokens)
                            THEN "spans" ELSE "max_context"
    /\ UNCHANGED <<ctorVars, createVars, argVars, example_index, unique_id, features,
                   tok_to_orig_index, orig_to_tok_index, all_doc_tokens,
                   tok_start_position, tok_end_position, truncated_query>>

\* Lines 167-171.
ResolveMaxContext ==
    /\ pc = "max_context"
    /\ spans' =
        [k \in 1..Len(spans) |->
            [spans[k] EXCEPT !.token_is_max_context =
                [index \in {(IF sequence_a_is_doc THEN 0
                             ELSE spans[k].truncated_query_with_special_tokens_length) + j :
                            j \in 0..(spans[k].paragraph_len - 1)} |->
                    _new_check_is_max_context(
                        spans, k - 1,
                        (k - 1) * doc_stride
                          + (index - (IF sequence_a_is_doc THEN 0
                                      ELSE spans[k].truncated_query_with_special_tokens_length)))]]]
    /\ pc' = "features"
    /\ UNCHANGED <<ctorVars, createVars, argVars, example_index, unique_id, features,
                   tok_to_orig_index, orig_to_tok_index, all_doc_tokens,
                   tok_start_position, tok_end_position, truncated_query,
                   span_doc_tokens>>

\* Number of windows of the current example already turned into features.
SpansDone == Cardinality({i \in 1..Len(features) :
                             features[i].example_index = example_index})

\* The SquadFeatures object of lines 173-236 for one window.
SquadFeatures(span) ==
    LET cls_index == IndexOf(span.input_ids, tokenizer.cls_token_id)
        in_training == is_training /\ ~Example.is_impossible
        doc_start == span.start
    IN  [input_ids      |-> span.input_ids,
         attention_mask |-> span.attention_mask,
         token_type_ids |-> span.token_type_ids,
         cls_index      |-> cls_index,
         p_mask         |-> PMask(span, cls_index),
         example_index  |-> example_index,
         unique_id      |-> unique_id,
         paragraph_len  |-> span.paragraph_len,
         token_is_max_context |-> span.token_is_max_context,
         tokens         |-> span.tokens,
         token_to_orig_map |-> span.token_to_orig_map,
         start_position |-> IF ~in_training THEN 0
                            ELSE IF OutOfSpan(span) THEN cls_index
                            ELSE tok_start_position - doc_start + DocOffset,
         end_position   |-> IF ~in_training THEN 0
                            ELSE IF OutOfSpan(span) THEN cls_index
                            ELSE tok_end_position - doc_start + DocOffset]

\* AppendFeature with the increment of unique_id after the loop over the
\* spans, once per example.
AppendFeature_perExample ==
    /\ pc = "features"
    /\ SpansDone < Len(spans)
    /\ features' = Append(features, SquadFeatures(spans[SpansDone + 1]))
    /\ unique_id' = IF SpansDone + 1 = Len(spans) THEN unique_id + 1 ELSE unique_id
    /\ UNCHANGED <<pc, ctorVars, createVars, argVars, example_index, exampleVars>>

\* One iteration of the loop of lines 173-238.
AppendFeature ==
    /\ pc = "features"
    /\ SpansDone < Len(spans)
    /\ features' = Append(features, SquadFeatures(spans[SpansDone + 1]))
    /\ unique_id' = unique_id + 1
    /\ UNCHANGED <<pc, ctorVars, createVars, argVars, example_index, exampleVars>>

\* The loop of line 173 is exhausted: on to the next example.
AdvanceExample ==
    /\ pc = "features"
    /\ SpansDone = Len(spans)
    /\ example_index' = example_index + 1
    /\ pc' = "example"
    /\ UNCHANGED <<ctorVars, createVars, argVars, unique_id, features, exampleVars>>

\* Line 240.
Return ==
    /\ pc = "example"
    /\ example_index = Len(examples)
    /\ pc' = "done"
    /\ UNCHANGED <<ctorVars, createVars, convertVars>>

NextConvert ==
    \/ SkipExample \/ TokenizeExample \/ BuildSpan \/ ResolveMaxContext
    \/ AppendFeature \/ AdvanceExample \/ Return

----------------------------------------------------------------------------
(* Inputs of squad_convert_examples_to_features.                           *)

MaxWords     == 2    \* words of a generated passage
MaxAnswerLen == 2    \* characters of a generated answer text
MaxStride    == 3    \* largest doc_stride
MaxWindow    == 3    \* largest passage room of a window
MaxBatch     == 3    \* examples of a generated batch

Words    == {<<"a">>, <<"a", "b">>}
Question == <<"q", " ", "q">>

Contexts(n) == {Join(ws, <<" ">>) : ws \in SeqsOf(Words, 1, n)}

\* The texts of 1..MaxAnswerLen characters that occur in ctx.
AnswerTexts(ctx) ==
    {SubSeq(ctx, se[1], se[2]) :
        se \in {x \in (1..Len(ctx)) \X (1..Len(ctx)) :
                   x[1] <= x[2] /\ x[2] < x[1] + MaxAnswerLen}}

\* Constructor calls for answerable questions on ctx: an answer text of the
\* passage at any character offset (the text need not stand at that offset),
\* and one for an unanswerable question.
ContextCtorArgs(ctx, q) ==
    {CtorArgs(ctx, t, TRUE, s, FALSE, q) :
        t \in AnswerTexts(ctx), s \in 0..(Len(ctx) - 1)}
    \cup {CtorArgs(ctx, <<>>, FALSE, 0, TRUE, q)}

ExamplesOver(ctxs, q) ==
    {SquadExample(a) : a \in {x \in UNION {ContextCtorArgs(c, q) : c \in ctxs} :
                                 ~CtorRaises(x)}}

\* Both layouts, with a classification token of its own (101) and with the
\* separator token (102) standing in for it.
Tokenizers ==
    {[layout |-> l, cls_token_id |-> c, sep_token_id |-> 102, pad_token_id |-> 0] :
        l \in {"bert", "xlnet"}, c \in {101, 102}}

\* The passage room of a window, which encode_plus needs to be positive.
WindowRoom(q, msl, mql, tok) ==
    msl - Len(Encode(q, mql)) - SequencePairAddedTokens(tok)

InitConvert(batches, q, toks, msls, strides, mqls, trainings, a_is_docs) ==
    /\ pc = "example"
    /\ CtorIdle /\ CreateIdle
    /\ examples \in batches
    /\ tokenizer \in toks
    /\ max_seq_length \in msls
    /\ doc_stride \in strides
    /\ max_query_length \in mqls
    /\ WindowRoom(q, max_seq_length, max_query_length, tokenizer) >= 1
    /\ is_training \in trainings
    /\ sequence_a_is_doc \in a_is_docs
    /\ ConvertLocalsInit

\* One example, every tokenizer, windows of 1..MaxWindow passage sub-tokens.
Init ==
    /\ InitConvert(SeqsOf(ExamplesOver(Contexts(MaxWords), Question), 1, 1), Question,
                   Tokenizers, 5..(5 + MaxWindow), 1..MaxStride, 1..2,
                   BOOLEAN, BOOLEAN)
    /\ WindowRoom(Question, max_seq_length, max_query_length, tokenizer) <= MaxWindow

Next == NextConvert

Spec == Init /\ [][Next]_vars

\* Batches of up to MaxBatch examples over one passage.
BertTokenizer ==
    [layout |-> "bert", cls_token_id |-> 101, sep_token_id |-> 102, pad_token_id |-> 0]

\* Questions on the passage "a ab": the answer "a" or "b" at the first
\* character of either word (found in the word or not), or no answer.
BatchContext == <<"a", " ", "a", "b">>
BatchExamples ==
    {SquadExample(a) :
        a \in {CtorArgs(BatchContext, <<t>>, TRUE, s, FALSE, Question) :
                  t \in {"a", "b"}, s \in {0, 2}}
              \cup {CtorArgs(BatchContext, <<>>, FALSE, 0, TRUE, Question)}}

InitBatch ==
    InitConvert(SeqsOf(BatchExamples, 0, MaxBatch), Question,
                {BertTokenizer}, {5}, 1..2, {1}, BOOLEAN, {FALSE})

SpecBatch == InitBatch /\ [][Next]_vars

\* max_seq_length = 20 and doc_stride = 5, a question of LongQuestionLen
\* sub-tokens cut to max_query_length, passages of the word "a" and up to
\* MaxLongWords words "ab" of two sub-tokens each.
MaxLongWords    == 6
LongQuestionLen == 16

LongQuestion == Repeat("q", LongQuestionLen)
LongContexts ==
    {Join(<<<<"a">>>> \o Repeat(<<"a", "b">>, k), <<" ">>) : k \in 1..MaxLongWords}

Init20 ==
    InitConvert(SeqsOf(ExamplesOver(LongContexts, LongQuestion), 1, 1), LongQuestion,
                {BertTokenizer}, {20}, {5}, 10..LongQuestionLen, BOOLEAN, BOOLEAN)

Spec20 == Init20 /\ [][Next]_vars

\* Any doc_stride >= 0, under the fairness of a running call: a step that can
\* be taken is taken.
InitAnyStride ==
    InitConvert(SeqsOf(BatchExamples, 1, 1), Question,
                {BertTokenizer}, 5..6, 0..MaxStride, 1..2, BOOLEAN, {FALSE})

SpecFair == InitAnyStride /\ [][Next]_vars /\ WF_vars(Next)

----------------------------------------------------------------------------
(* Properties of the windows and feature records of one example.           *)

\* The feature record made from window k (1-based) of the current example.
CurrentFeature(k) == features[Len(features) - SpansDone + k]

Answerable == is_training /\ ~Example.is_impossible

\* Window w holds the whole answer span.
HoldsAnswer(w) ==
    w.start <= tok_start_position /\ tok_end_position <= w.start + w.length - 1

\* Sub-tokens of the words before word w (0-based) of the passage.
RECURSIVE SubTokensBefore(_, _)
SubTokensBefore(doc_tokens, w) ==
    IF w = 0 THEN 0
    ELSE SubTokensBefore(doc_tokens, w - 1) + Len(Tokenize(doc_tokens[w]))

\* The 0-based whitespace token that sub-token t of the passage comes from.
OrigWordOf(doc_tokens, t) ==
    CHOOSE w \in 0..(Len(doc_tokens) - 1) :
        /\ SubTokensBefore(doc_tokens, w) <= t
        /\ t < SubTokensBefore(doc_tokens, w + 1)

C3_InSpanTranslation ==
    (pc = "features" /\ Answerable) =>
        \A k \in 1..SpansDone :
            HoldsAnswer(spans[k]) =>
                LET f == CurrentFeature(k)
                    offset == IF sequence_a_is_doc THEN 0
                              ELSE Len(truncated_query) + SequenceAddedTokens(tokenizer)
                IN  /\ f.start_position = tok_start_position - spans[k].start + offset
                    /\ f.end_position = tok_end_position - spans[k].start + offset
                    /\ f.start_position <= f.end_position
                    /\ f.start_position \in DOMAIN f.token_to_orig_map
                    /\ f.end_position \in DOMAIN f.token_to_orig_map
                    /\ f.token_to_orig_map[f.start_position]
                         = OrigWordOf(Example.doc_tokens, tok_start_position)
                    /\ f.token_to_orig_map[f.end_position]
                         = OrigWordOf(Example.doc_tokens, tok_end_position)

\* A record of a later window (start > 0) that holds an answer of two
\* sub-tokens, the passage standing behind the question.
C3_Witness ==
    /\ pc = "features" /\ Answerable /\ ~sequence_a_is_doc
    /\ \E k \in 1..SpansDone :
          /\ HoldsAnswer(spans[k])
          /\ spans[k].start > 0
          /\ tok_start_position < tok_end_position
          /\ CurrentFeature(k).start_position < CurrentFeature(k).end_position

\* C5 as stated: in every record p_mask is 0 at cls_index and 1 at every
\* position that holds the separator id.
C5_Original ==
    \A n \in 1..Len(features) :
        /\ features[n].p_mask[features[n].cls_index + 1] = 0
        /\ \A i \in 1..Len(features[n].input_ids) :
              features[n].input_ids[i] = tokenizer.sep_token_id
                  => features[n].p_mask[i] = 1

\* C5: in every record p_mask is 0 at cls_index and 1 at every other
\* position that holds the separator id.
C5_PMask ==
    \A n \in 1..Len(features) :
        /\ features[n].p_mask[features[n].cls_index + 1] = 0
        /\ \A i \in 1..Len(features[n].input_ids) :
              (features[n].input_ids[i] = tokenizer.sep_token_id
                  /\ i # features[n].cls_index + 1)
                  => features[n].p_mask[i] = 1

\* A record whose separator stands in the second segment, which the
\* inverted segment ids alone would leave at 0.
C5_Witness ==
    /\ ~sequence_a_is_doc
    /\ \E n \in 1..Len(features) :
          \E i \in 1..Len(features[n].input_ids) :
              /\ features[n].input_ids[i] = tokenizer.sep_token_id
              /\ features[n].token_type_ids[i] = 1
              /\ i # features[n].cls_index + 1
              /\ features[n].p_mask[i] = 1

\* Window k (1-based) covers passage position p.
Covers(k, p) == spans[k].start <= p /\ p <= spans[k].start + spans[k].length - 1

\* Key of passage position p in the maps of window k.
KeyOf(k, p) ==
    p - spans[k].start
      + (IF sequence_a_is_doc THEN 0
         ELSE Len(truncated_query) + SequenceAddedTokens(tokenizer))

\* The score of window k for position p, in hundredths:
\* min(left context, right context) + 0.01 * window length.
\* Window k beats window m for position p when its score is higher, or the
\* same and k was produced earlier.
ScoreOf(k, p) ==
    100 * Min(p - spans[k].start, spans[k].start + spans[k].length - 1 - p)
        + spans[k].length

Beats(k, m, p) ==
    \/ ScoreOf(k, p) > ScoreOf(m, p)
    \/ ScoreOf(k, p) = ScoreOf(m, p) /\ k < m

\* C7: for every passage position that some window covers, exactly one
\* window marks it max-context: the covering window with the highest score
\* min(left, right) + 0.01 * length, the earlier one on equal scores.
C7_MaxContext ==
    pc = "features" =>
        \A p \in 0..(Len(all_doc_tokens) - 1) :
            (\E k \in 1..Len(spans) : Covers(k, p)) =>
                \E b \in 1..Len(spans) :
                    /\ Covers(b, p)
                    /\ \A m \in 1..Len(spans) : (Covers(m, p) /\ m # b) => Beats(b, m, p)
                    /\ {k \in 1..Len(spans) :
                           Covers(k, p) /\ spans[k].token_is_max_context[KeyOf(k, p)]}
                         = {b}

\* Two windows cover a position with the same score.
C7_Witness ==
    /\ pc = "features"
    /\ \E p \in 0..(Len(all_doc_tokens) - 1) :
          \E k, m \in 1..Len(spans) :
              /\ k < m /\ Covers(k, p) /\ Covers(m, p)
              /\ ScoreOf(k, p) = ScoreOf(m, p)
              /\ spans[k].token_is_max_context[KeyOf(k, p)]
              /\ ~spans[m].token_is_max_context[KeyOf(m, p)]

----------------------------------------------------------------------------
(* Properties of the sliding window loop.                                  *)

WindowsBuilt == pc \in {"max_context", "features"}

\* C1 as stated (checked with max_seq_length = 20, doc_stride = 5): the
\* windows of an example cover every passage sub-token 0..N-1, no window is
\* longer than max_seq_length - question length - pair overhead, and the
\* k-th window (k = 0, 1, ...) starts at k * doc_stride.
C1_WindowCoverage ==
    WindowsBuilt =>
        /\ \A p \in 0..(Len(all_doc_tokens) - 1) : \E k \in 1..Len(spans) : Covers(k, p)
        /\ \A k \in 1..Len(spans) :
              /\ spans[k].length <= max_seq_length - Len(truncated_query)
                                      - SequencePairAddedTokens(tokenizer)
              /\ spans[k].start = (k - 1) * doc_stride

\* C10 as stated: the call returns in the end, and while doc_stride >= 1 the
\* window loop of an example has run at most ceil(N / doc_stride) times.
C10_Terminates ==
    /\ <>(pc = "done")
    /\ [](doc_stride >= 1 => (Len(spans) - 1) * doc_stride < Len(all_doc_tokens))

----------------------------------------------------------------------------
(* Properties of a whole batch.                                            *)

\* C4: the i-th record returned (i = 0, 1, ...) has unique_id 1000000000 + i,
\* also when examples are skipped and when examples give several windows.
C4_UniqueIds ==
    \A n \in 1..Len(features) : features[n].unique_id = 1000000000 + (n - 1)

\* The records of example i (0-based), in output order.
RECURSIVE FeaturesOf(_, _)
FeaturesOf(fs, i) ==
    IF fs = <<>> THEN <<>>
    ELSE IF Head(fs).example_index = i
         THEN <<Head(fs)>> \o FeaturesOf(Tail(fs), i)
         ELSE FeaturesOf(Tail(fs), i)

\* The answer text of e, whitespace-normalized, does not occur in the text
\* of its whitespace tokens start_position..end_position.
Mismatching(e) ==
    LET text   == Join(SubSeq(e.doc_tokens, e.start_position + 1, e.end_position + 1),
                       <<" ">>)
        needle == Join(whitespace_tokenize(e.answer_text), <<" ">>)
    IN  ~\E o \in 0..(Len(text) - Len(needle)) :
            SubSeq(text, o + 1, o + Len(needle)) = needle

\* A finished call in which a skipped example stands before an example with
\* two windows, and three records came out.
C4_Witness ==
    /\ pc = "done"
    /\ Len(features) >= 3
    /\ \E i \in 1..Len(examples) : is_training /\ ~examples[i].is_impossible
                                      /\ Mismatching(examples[i])
                                      /\ Len(FeaturesOf(features, i)) >= 2

\* Number of windows of a passage of n sub-tokens.
ExpectedWindows(n, room, stride) ==
    IF n = 0 THEN 0
    ELSE CHOOSE k \in 1..n :
            /\ n - (k - 1) * stride <= room \/ k * stride >= n
            /\ \A j \in 1..(k - 1) : ~(n - (j - 1) * stride <= room \/ j * stride >= n)

\* A record without the two fields that depend on its place in the batch.
Placeless(f) == [f EXCEPT !.unique_id = 0, !.example_index = 0]
PlacelessOf(i) ==
    [k \in 1..Len(FeaturesOf(features, i)) |-> Placeless(FeaturesOf(features, i)[k])]

\* C6: when the call has returned, a training example whose answer text is
\* not found in its token span has no record, every other example has all
\* the records of its windows, and equal examples have equal records (apart
\* from unique_id and example_index) wherever they stand in the batch.
C6_MismatchSkipped ==
    pc = "done" =>
        \A i \in 1..Len(examples) :
            IF is_training /\ ~examples[i].is_impossible /\ Mismatching(examples[i])
            THEN FeaturesOf(features, i - 1) = <<>>
            ELSE /\ Len(FeaturesOf(features, i - 1))
                      = ExpectedWindows(Len(Tokenize(examples[i].context_text)),
                                        max_seq_length
                                          - Len(Encode(examples[i].question_text,
                                                       max_query_length))
                                          - SequencePairAddedTokens(tokenizer),
                                        doc_stride)
                 /\ \A j \in 1..Len(examples) :
                        examples[j] = examples[i] => PlacelessOf(j - 1) = PlacelessOf(i - 1)

\* A finished call whose first example was skipped and whose later examples
\* are two equal ones with records.
C6_Witness ==
    /\ pc = "done"
    /\ Len(examples) = 3
    /\ is_training /\ ~examples[1].is_impossible /\ Mismatching(examples[1])
    /\ examples[2] = examples[3]
    /\ Len(FeaturesOf(features, 1)) >= 2
    /\ PlacelessOf(1) = PlacelessOf(2)

----------------------------------------------------------------------------
(* SquadProcessor._create_examples.  input_data is a list of entries, an   *)
(* entry a list of paragraphs, a paragraph a list of questions; a question *)
(* is [id, is_impossible, answers], answers being the number of entries of *)
(* its "answers" list.  only_first is <<>> for None and <<L>> for a limit. *)

MaxParagraphs == 2   \* paragraphs of an entry
MaxQas        == 2   \* questions of a paragraph
MaxLimit      == 3   \* largest only_first

\* The questions of input_data in the order of the three nested loops, each
\* with the 1-based entry and paragraph it belongs to.
RECURSIVE FlatParagraph(_, _, _, _)
FlatParagraph(qas, e, p, i) ==
    IF i > Len(qas) THEN <<>>
    ELSE <<[entry |-> e, paragraph |-> p, qa |-> qas[i]]>>
            \o FlatParagraph(qas, e, p, i + 1)

RECURSIVE FlatEntry(_, _, _)
FlatEntry(paragraphs, e, p) ==
    IF p > Len(paragraphs) THEN <<>>
    ELSE FlatParagraph(paragraphs[p], e, p, 1) \o FlatEntry(paragraphs, e, p + 1)

RECURSIVE FlatData(_, _)
FlatData(data, e) ==
    IF e > Len(data) THEN <<>>
    ELSE FlatEntry(data[e], e, 1) \o FlatData(data, e + 1)

Questions == FlatData(input_data, 1)

\* The test of lines 309-310 for the question under the cursor.
WrongAnswerCount(q) ==
    ~q.qa.is_impossible /\ set_type = "train" /\ q.qa.answers # 1

\* The test of line 329 after the example has been appended.
LimitReached_exact(n) == only_first # <<>> /\ n >= only_first[1]

LimitReached(n) == only_first # <<>> /\ n > only_first[1]

\* One pass through the body of the innermost loop (lines 299-330); the
\* call returns when the limit is reached or the data is exhausted.
CreateExample ==
    /\ pc = "create"
    /\ cursor < Len(Questions)
    /\ ~WrongAnswerCount(Questions[cursor + 1])
    /\ LET q == Questions[cursor + 1]
           example == [qas_id |-> q.qa.id, entry |-> q.entry,
                       paragraph |-> q.paragraph,
                       is_impossible |-> q.qa.is_impossible]
       IN  /\ created' = Append(created, example)
           /\ cursor' = cursor + 1
           /\ pc' = IF LimitReached(Len(created) + 1) \/ cursor + 1 = Len(Questions)
                    THEN "returned" ELSE "create"
    /\ UNCHANGED <<ctorVars, input_data, set_type, only_first, convertVars>>

\* Lines 310-312.
CreateRaises ==
    /\ pc = "create"
    /\ cursor < Len(Questions)
    /\ WrongAnswerCount(Questions[cursor + 1])
    /\ pc' = "ValueError"
    /\ UNCHANGED <<ctorVars, createVars, convertVars>>

\* Line 331 for data without any question.
CreateNothing ==
    /\ pc = "create"
    /\ Len(Questions) = 0
    /\ pc' = "returned"
    /\ UNCHANGED <<ctorVars, createVars, convertVars>>

\* Data of one entry of 1..MaxParagraphs paragraphs of 0..MaxQas questions,
\* with or without a second entry of one paragraph; question number bad (if
\* any) has two answers and question number imp (if any) is impossible.
ParagraphShapes == 0..MaxQas
EntryShapes     == SeqsOf(ParagraphShapes, 1, MaxParagraphs)
DataShapes      ==
    {<<e>> : e \in EntryShapes}
        \cup {<<e, <<n>>>> : e \in EntryShapes, n \in ParagraphShapes}

\* Questions before paragraph p of entry e in a shape.
RECURSIVE ShapeSum(_, _)
ShapeSum(counts, n) == IF n = 0 THEN 0 ELSE counts[n] + ShapeSum(counts, n - 1)

RECURSIVE ShapeBefore(_, _, _)
ShapeBefore(shape, e, p) ==
    IF e = 1 THEN ShapeSum(shape[1], p - 1)
    ELSE ShapeSum(shape[e - 1], Len(shape[e - 1]))
           + ShapeBefore(shape, e - 1, 1) + ShapeSum(shape[e], p - 1)

DataOf(shape, bad, imp) ==
    [e \in 1..Len(shape) |->
        [p \in 1..Len(shape[e]) |->
            [i \in 1..shape[e][p] |->
                LET n == ShapeBefore(shape, e, p) + i
                IN  [id |-> n, is_impossible |-> (n = imp),
                     answers |-> IF n = bad THEN 2 ELSE 1]]]]

InitCreate ==
    /\ pc = "create"
    /\ CtorIdle /\ ConvertIdle
    /\ \E shape \in DataShapes, bad \in 0..2, imp \in 0..1 :
          input_data = DataOf(shape, bad, imp)
    /\ set_type \in {"train", "dev"}
    /\ only_first \in {<<>>} \cup {<<l>> : l \in 0..MaxLimit}
    /\ cursor = 0
    /\ created = <<>>

NextCreate == CreateExample \/ CreateRaises \/ CreateNothing

SpecCreate == InitCreate /\ [][NextCreate]_vars

----------------------------------------------------------------------------
(* Properties of _create_examples.                                         *)

\* The first n questions end with the last question of a paragraph.
AtParagraphEnd(n) ==
    \/ n = 0
    \/ n = Len(Questions)
    \/ /\ n < Len(Questions)
       /\ <<Questions[n].entry, Questions[n].paragraph>>
            # <<Questions[n + 1].entry, Questions[n + 1].paragraph>>

\* C9 as stated: with a limit, the count is compared with the limit only
\* after a whole paragraph, so the returned list ends at a paragraph boundary.
C9_Original ==
    (pc = "returned" /\ only_first # <<>>) => AtParagraphEnd(Len(created))

\* C9: with a limit L >= 0 the count is compared with L after every appended
\* example: the returned list holds the first min(L + 1, number of questions)
\* questions, wherever in a paragraph that ends.
C9_LimitPerQuestion ==
    (pc = "returned" /\ only_first # <<>>) =>
        /\ Len(created) = Min(only_first[1] + 1, Len(Questions))
        /\ \A n \in 1..Len(created) :
              /\ created[n].qas_id = Questions[n].qa.id
              /\ created[n].entry = Questions[n].entry
              /\ created[n].paragraph = Questions[n].paragraph

\* A call that returned L + 1 examples in the middle of a paragraph.
C9_Witness ==
    /\ pc = "returned" /\ only_first # <<>>
    /\ Len(created) = only_first[1] + 1
    /\ Len(created) < Len(Questions)
    /\ ~AtParagraphEnd(Len(created))

----------------------------------------------------------------------------
(* Properties of SquadExample.__init__.                                    *)

====
